---- MODULE Spec2Model ----
(***************************************************************************)
(* State-machine model of the three review scripts of the repository:      *)
(*   src/pr.ts      (pull-request review,   mode "pr")                     *)
(*   src/commit.ts  (commit-by-commit review, mode "commit")               *)
(*   src/release.ts (release notes,         mode "release")                *)
(* Each script is one asynchronous run; the actions are the segments of    *)
(* the run between two await points.  Text is a sequence of one-character  *)
(* strings, so that includes/split/parseInt are computed, not assumed.     *)
(*                                                                         *)
(* generateText is a library call.  It is modelled by its step loop: each  *)
(* step is one model round trip; a tool call the model requests in a step  *)
(* is executed in that step; another step follows only when the step had   *)
(* a tool call and the number of steps taken is below maxSteps.  A model   *)
(* response carries either a final text or one call of the one registered  *)
(* tool.  A throwing tool or a failing model call makes generateText throw.*)
(***************************************************************************)
EXTENDS Integers, Sequences, FiniteSets, TLC

\* ---------------------------------------------------------------- bounds
MaxRangeLen == 5      \* longest SEMAPHORE_GIT_COMMIT_RANGE text
MaxCommits  == 3      \* longest commits list of a compare response
MaxArgLen   == 2      \* longest pull-number argument text

\* ------------------------------------------------------------------ text
Alphabet  == {"a", "b", "."}
ArgChars  == {"7", "x"}
Undefined == <<"undefined">>          \* an unset variable / absent argument

StringsOver(chars, n) == UNION {[1..k -> chars] : k \in 0..n}

\* JavaScript truthiness of a string-or-undefined value: !v
Falsy(v) == v = Undefined \/ v = <<>>

\* s.indexOf(sep): first position (1-based) where sep occurs in s, 0 if none
IndexOf(s, sep) ==
  LET hits == {i \in 1..(Len(s) - Len(sep) + 1) : SubSeq(s, i, i + Len(sep) - 1) = sep}
  IN  IF hits = {} THEN 0 ELSE CHOOSE i \in hits : \A j \in hits : i <= j

\* s.includes(sep)
Includes(s, sep) == IndexOf(s, sep) # 0

\* s.split(sep): cut at EVERY occurrence of sep, left to right
RECURSIVE Split(_, _)
Split(s, sep) ==
  LET i == IndexOf(s, sep)
  IN  IF i = 0 THEN <<s>>
      ELSE <<SubSeq(s, 1, i - 1)>> \o Split(SubSeq(s, i + Len(sep), Len(s)), sep)

Separator == <<".", ".", ".">>

\* parseInt(arg, 10) on texts over ArgChars: the value of the leading run of
\* digits; NaN when the text does not start with a digit.
NaN == -1
IsDigit(c) == c = "7"
RECURSIVE DigitPrefixValue(_, _)
DigitPrefixValue(s, acc) ==
  IF s = <<>> \/ ~IsDigit(Head(s)) THEN acc
  ELSE DigitPrefixValue(Tail(s), acc * 10 + 7)
ParseInt(s) == IF s = <<>> \/ ~IsDigit(Head(s)) THEN NaN ELSE DigitPrefixValue(s, 0)

\* ----------------------------------------------------------------- state
VARIABLES
  mode,            \* which script runs
  env,             \* process.env
  argv2,           \* process.argv[2]
  pc,              \* position of the run
  exitCode,        \* process exit status, -1 while running
  stdout,          \* console.log lines
  stderr,          \* console.error lines and uncaught errors
  compareReq,      \* the compare request sent: <<[base, head]>> or <<>>
  compareData,     \* the compare response received: <<resp>> or <<>>
  commitsToReview, \* commit.ts commitsToReview
  idx,             \* iterations of the for loop completed
  pullNumber,      \* pr.ts pullNumber
  stepCount,       \* generateText steps completed in the current session
  toolExecs,       \* tool executions in the current session
  modelCalls,      \* model round trips in the current session
  netCalls,        \* network requests issued by the run
  inFlight,        \* network requests awaiting a response
  diffFetches,     \* tool fetch requests issued by the run
  sessionsStarted, \* generateText calls made by the run
  sessionsActive   \* generateText calls not yet settled

vars == <<mode, env, argv2, pc, exitCode, stdout, stderr, compareReq, compareData,
          commitsToReview, idx, pullNumber, stepCount, toolExecs, modelCalls,
          netCalls, inFlight, diffFetches, sessionsStarted, sessionsActive>>

Modes == {"pr", "commit", "release"}

ConfigVals == {Undefined, <<>>, <<"o">>}
ShaVals    == {Undefined, <<>>, <<"c">>}
RangeVals  == {Undefined} \cup StringsOver(Alphabet, MaxRangeLen)
ArgVals    == {Undefined} \cup StringsOver(ArgChars, MaxArgLen)

Envs(m) ==
  [GITHUB_OWNER : ConfigVals, GITHUB_REPO : ConfigVals, GITHUB_TOKEN : ConfigVals,
   OPENAI_API_KEY : IF m = "release" THEN ConfigVals ELSE {<<"o">>},
   SEMAPHORE_GIT_SHA : IF m = "commit" THEN ShaVals ELSE {Undefined},
   SEMAPHORE_GIT_COMMIT_RANGE : IF m = "commit" THEN RangeVals ELSE {Undefined}]

\* Commit identifiers a compare response may list, and the responses
Shas == {<<"a">>, <<"b">>, <<"c">>, <<"a", "b">>}
CommitLists ==
  UNION {{l \in [1..k -> [sha : Shas]] : \A i, j \in 1..k : i # j => l[i] # l[j]}
         : k \in 0..MaxCommits}
CompareResponses ==
  {r \in [ok : BOOLEAN, hasCommits : BOOLEAN, commits : CommitLists]
     : ~r.hasCommits => r.commits = <<>>}

Line(kind, sha) == [line |-> kind, sha |-> sha]
Err(msg, sha)   == [msg |-> msg, sha |-> sha]

Init ==
  /\ mode \in Modes
  /\ env \in Envs(mode)
  /\ argv2 \in (IF mode = "pr" THEN ArgVals ELSE {Undefined})
  /\ pc = "start"
  /\ exitCode = -1
  /\ stdout = <<>>
  /\ stderr = <<>>
  /\ compareReq = <<>>
  /\ compareData = <<>>
  /\ commitsToReview = <<>>
  /\ idx = 0
  /\ pullNumber = NaN
  /\ stepCount = 0
  /\ toolExecs = 0
  /\ modelCalls = 0
  /\ netCalls = 0
  /\ inFlight = 0
  /\ diffFetches = 0
  /\ sessionsStarted = 0
  /\ sessionsActive = 0

\* ---------------------------------------------------------- configuration
\* The message of the first failing check, "" when every check passes.
ConfigErrorPr(e) ==
  IF Falsy(e.GITHUB_OWNER) THEN "Environment variable GITHUB_OWNER is not set."
  ELSE IF Falsy(e.GITHUB_REPO) THEN "Environment variable GITHUB_REPO is not set."
  ELSE IF Falsy(e.GITHUB_TOKEN) THEN "Environment variable GITHUB_TOKEN is not set."
  ELSE ""

\* Variant of ConfigErrorCommit that leaves out the GITHUB_TOKEN check.
ConfigErrorCommitNoToken(e) ==
  IF Falsy(e.GITHUB_OWNER) THEN "Environment variable GITHUB_OWNER is not set."
  ELSE IF Falsy(e.GITHUB_REPO) THEN "Environment variable GITHUB_REPO is not set."
  ELSE ""

ConfigErrorCommit(e) ==
  IF Falsy(e.GITHUB_OWNER) THEN "Environment variable GITHUB_OWNER is not set."
  ELSE IF Falsy(e.GITHUB_REPO) THEN "Environment variable GITHUB_REPO is not set."
  ELSE IF Falsy(e.GITHUB_TOKEN) THEN "Environment variable GITHUB_TOKEN is not set."
  ELSE ""

ConfigErrorRelease(e) ==
  IF Falsy(e.GITHUB_OWNER) \/ Falsy(e.GITHUB_REPO) \/ Falsy(e.GITHUB_TOKEN)
    THEN "Missing required environment variables for GitHub access."
  ELSE IF Falsy(e.OPENAI_API_KEY) THEN "Missing OPENAI_API_KEY environment variable."
  ELSE ""

ConfigError(m, e) ==
  IF m = "pr" THEN ConfigErrorPr(e)
  ELSE IF m = "commit" THEN ConfigErrorCommit(e)
  ELSE ConfigErrorRelease(e)

\* Module top level: the checks throw uncaught, which ends the process with
\* status 1; otherwise the script goes on to its entry point.
LoadConfig ==
  /\ pc = "start"
  /\ LET msg == ConfigError(mode, env) IN
       IF msg # ""
         THEN /\ pc' = "aborted"
              /\ exitCode' = 1
              /\ stderr' = Append(stderr, Err(msg, <<>>))
         ELSE /\ pc' = (IF mode = "pr" THEN "args"
                        ELSE IF mode = "commit" THEN "resolve" ELSE "session")
              /\ UNCHANGED <<exitCode, stderr>>
  /\ UNCHANGED <<mode, env, argv2, stdout, compareReq, compareData, commitsToReview,
                 idx, pullNumber, stepCount, toolExecs, modelCalls, netCalls,
                 inFlight, diffFetches, sessionsStarted, sessionsActive>>

\* ------------------------------------------------------------- pr.ts args
\* Top level of pr.ts after the configuration checks: the argument checks
\* end the process with status 1; a parsed number goes to runCodeReview.
ParseArgs ==
  /\ pc = "args"
  /\ IF Falsy(argv2)
       THEN /\ stderr' = Append(stderr, Err("Usage: npx tsx --env-file=.env src/pr.ts <pull-number>", <<>>))
            /\ exitCode' = 1
            /\ pc' = "exited"
            /\ UNCHANGED pullNumber
       ELSE IF ParseInt(argv2) = NaN
         THEN /\ stderr' = Append(stderr, Err("Invalid pull request number", <<>>))
              /\ exitCode' = 1
              /\ pc' = "exited"
              /\ UNCHANGED pullNumber
         ELSE /\ pullNumber' = ParseInt(argv2)
              /\ pc' = "session"
              /\ UNCHANGED <<stderr, exitCode>>
  /\ UNCHANGED <<mode, env, argv2, stdout, compareReq, compareData, commitsToReview,
                 idx, stepCount, toolExecs, modelCalls, netCalls, inFlight,
                 diffFetches, sessionsStarted, sessionsActive>>

\* --------------------------------------------------- commit.ts resolution
\* const [base, head] = commitRange.split('...')
SplitRange(range) ==
  LET parts == Split(range, Separator)
  IN  [base |-> parts[1], head |-> parts[2]]

\* Variant of SingleCommit with the operands swapped:
\* SEMAPHORE_GIT_SHA || commitRange
SingleCommitShaFirst(e) ==
  IF ~Falsy(e.SEMAPHORE_GIT_SHA) THEN e.SEMAPHORE_GIT_SHA
  ELSE e.SEMAPHORE_GIT_COMMIT_RANGE

\* const singleCommit = commitRange || SEMAPHORE_GIT_SHA
SingleCommit(e) ==
  IF ~Falsy(e.SEMAPHORE_GIT_COMMIT_RANGE) THEN e.SEMAPHORE_GIT_COMMIT_RANGE
  ELSE e.SEMAPHORE_GIT_SHA

\* commitRange && commitRange.includes('...')
IsRange(e) ==
  /\ ~Falsy(e.SEMAPHORE_GIT_COMMIT_RANGE)
  /\ Includes(e.SEMAPHORE_GIT_COMMIT_RANGE, Separator)

\* Variant of MapShas that returns the identifiers newest first.
MapShasReversed(commits) ==
  [i \in 1..Len(commits) |-> commits[Len(commits) + 1 - i].sha]

\* compareData.commits.map(c => c.sha)
MapShas(commits) == [i \in 1..Len(commits) |-> commits[i].sha]

\* Variant of ResolveFromCompare that leaves out the compareResponse.ok check.
ResolveFromCompareIgnoreStatus(r) ==
  IF ~r.hasCommits
    THEN [err |-> "No commits found in the specified commit range.", commits |-> <<>>]
  ELSE IF Len(r.commits) = 0
    THEN [err |-> "No commits available in the comparison data.", commits |-> <<>>]
  ELSE [err |-> "", commits |-> [i \in 1..Len(r.commits) |-> r.commits[i].sha]]

\* The checks on the compare response: the error thrown ("" when none) and
\* the list assigned to commitsToReview.
ResolveFromCompare(r) ==
  IF ~r.ok THEN [err |-> "Failed to compare commits", commits |-> <<>>]
  ELSE IF ~r.hasCommits
    THEN [err |-> "No commits found in the specified commit range.", commits |-> <<>>]
  ELSE IF Len(MapShas(r.commits)) = 0
    THEN [err |-> "No commits available in the comparison data.", commits |-> <<>>]
  ELSE [err |-> "", commits |-> MapShas(r.commits)]

\* The catch block of runCommitReview for an error thrown during resolution:
\* it logs, the function returns and the process ends with status 0.
ResolutionThrown(msg) ==
  /\ stderr' = Append(stderr, Err(msg, <<>>))
  /\ pc' = "done"
  /\ exitCode' = 0
  /\ UNCHANGED <<stdout, commitsToReview>>

\* Resolution succeeded: the list is set and the opening banner printed.
ResolutionDone(list) ==
  /\ commitsToReview' = list
  /\ stdout' = Append(stdout, Line("=== AI Commit-by-Commit Review ===", <<>>))
  /\ pc' = "loop"
  /\ UNCHANGED <<stderr, exitCode>>

\* runCommitReview up to its first await (the compare fetch) or, without a
\* range, up to the for loop.
ResolveTargets ==
  /\ pc = "resolve"
  /\ IF IsRange(env)
       THEN /\ compareReq' = <<SplitRange(env.SEMAPHORE_GIT_COMMIT_RANGE)>>
            /\ netCalls' = netCalls + 1
            /\ inFlight' = inFlight + 1
            /\ pc' = "compare_wait"
            /\ UNCHANGED <<stdout, stderr, exitCode, commitsToReview>>
       ELSE /\ IF Falsy(SingleCommit(env))
                 THEN ResolutionThrown("No commit or commit range found in environment variables.")
                 ELSE ResolutionDone(<<SingleCommit(env)>>)
            /\ UNCHANGED <<compareReq, netCalls, inFlight>>
  /\ UNCHANGED <<mode, env, argv2, compareData, idx, pullNumber, stepCount, toolExecs,
                 modelCalls, diffFetches, sessionsStarted, sessionsActive>>

\* The compare response arrives.
CompareRespond ==
  /\ pc = "compare_wait"
  /\ \E r \in CompareResponses :
       /\ compareData' = <<r>>
       /\ inFlight' = inFlight - 1
       /\ IF ResolveFromCompare(r).err # ""
            THEN ResolutionThrown(ResolveFromCompare(r).err)
            ELSE ResolutionDone(ResolveFromCompare(r).commits)
  /\ UNCHANGED <<mode, env, argv2, compareReq, idx, pullNumber, stepCount, toolExecs,
                 modelCalls, netCalls, diffFetches, sessionsStarted, sessionsActive>>

\* ------------------------------------------------------ generation session
\* Variant of maxSteps: a budget of three steps.
maxStepsThree == 2 + 1

maxSteps == 2

\* The target of the current session ("" outside commit mode)
CurrentSha == IF mode = "commit" THEN commitsToReview[idx + 1] ELSE <<>>

\* generateText is called: step 1's model round trip is issued.
BeginSession ==
  /\ stepCount' = 0
  /\ toolExecs' = 0
  /\ modelCalls' = 1
  /\ netCalls' = netCalls + 1
  /\ inFlight' = inFlight + 1
  /\ sessionsStarted' = sessionsStarted + 1
  /\ sessionsActive' = sessionsActive + 1
  /\ pc' = "model_wait"

\* for (const sha of commitsToReview): the next iteration calls generateText;
\* after the last one the closing banner is printed and the run ends.
LoopNext ==
  /\ pc = "loop"
  /\ IF idx < Len(commitsToReview)
       THEN /\ BeginSession
            /\ UNCHANGED <<stdout, exitCode>>
       ELSE /\ stdout' = Append(stdout, Line("=================================", <<>>))
            /\ pc' = "done"
            /\ exitCode' = 0
            /\ UNCHANGED <<stepCount, toolExecs, modelCalls, netCalls, inFlight,
                           sessionsStarted, sessionsActive>>
  /\ UNCHANGED <<mode, env, argv2, stderr, compareReq, compareData, commitsToReview,
                 idx, pullNumber, diffFetches>>

\* runCodeReview / generateReleaseNotes call generateText once.
StartSession ==
  /\ pc = "session"
  /\ BeginSession
  /\ UNCHANGED <<mode, env, argv2, stdout, stderr, exitCode, compareReq, compareData,
                 commitsToReview, idx, pullNumber, diffFetches>>

\* generateText resolved: the caller prints the result.  commit.ts prints the
\* per-commit banner and goes to the next iteration; pr.ts and release.ts
\* print their summary and end.
SessionFinished ==
  /\ sessionsActive' = sessionsActive - 1
  /\ IF mode = "commit"
       THEN /\ stdout' = stdout \o <<Line("--- Review for commit", CurrentSha),
                                     Line("text", CurrentSha),
                                     Line("---------------------------------", CurrentSha)>>
            /\ idx' = idx + 1
            /\ pc' = "loop"
            /\ UNCHANGED exitCode
       ELSE /\ stdout' = stdout \o <<Line("=== header ===", <<>>), Line("text", <<>>),
                                     Line("=== footer ===", <<>>)>>
            /\ pc' = "done"
            /\ exitCode' = 0
            /\ UNCHANGED idx
  /\ UNCHANGED stderr

\* Variant of SessionThrown with the try/catch inside the for loop of
\* commit.ts: the failure is logged and the loop goes on with the next target.
SessionThrownPerTarget(msg) ==
  /\ sessionsActive' = sessionsActive - 1
  /\ stderr' = Append(stderr, Err(msg, CurrentSha))
  /\ IF mode = "commit"
       THEN /\ pc' = "loop"
            /\ idx' = idx + 1
            /\ UNCHANGED exitCode
       ELSE /\ pc' = "done"
            /\ exitCode' = 0
            /\ UNCHANGED idx
  /\ UNCHANGED stdout

\* generateText rejected: the catch block of the calling function logs the
\* error; the function returns and the process ends with status 0.  In
\* commit.ts the try block encloses the whole for loop.
SessionThrown(msg) ==
  /\ sessionsActive' = sessionsActive - 1
  /\ stderr' = Append(stderr, Err(msg, CurrentSha))
  /\ pc' = "done"
  /\ exitCode' = 0
  /\ UNCHANGED <<stdout, idx>>

\* Variant of ContinueSteps with the comparison off by one.
ContinueStepsOffByOne(steps) == steps <= maxSteps

\* Whether generateText takes another step after a step with a tool call,
\* given the number of steps completed.
ContinueSteps(steps) == steps < maxSteps

\* A model round trip returns: an error, a final text, or a tool call, which
\* is executed at once (the tool's fetch is issued).
ModelRespond ==
  /\ pc = "model_wait"
  /\ \E r \in {"error", "text", "tool"} :
       CASE r = "error" ->
              /\ inFlight' = inFlight - 1
              /\ SessionThrown("model call failed")
              /\ UNCHANGED <<stepCount, toolExecs, netCalls, diffFetches>>
         [] r = "text" ->
              /\ inFlight' = inFlight - 1
              /\ stepCount' = stepCount + 1
              /\ SessionFinished
              /\ UNCHANGED <<toolExecs, netCalls, diffFetches>>
         [] r = "tool" ->
              /\ toolExecs' = toolExecs + 1
              /\ diffFetches' = diffFetches + 1
              /\ netCalls' = netCalls + 1
              /\ inFlight' = inFlight
              /\ pc' = "tool_wait"
              /\ UNCHANGED <<stepCount, stdout, stderr, exitCode, idx, sessionsActive>>
  /\ UNCHANGED <<mode, env, argv2, compareReq, compareData, commitsToReview,
                 pullNumber, modelCalls, sessionsStarted>>

\* The tool's fetch returns.  A non-success status makes execute throw, which
\* rejects generateText.  Otherwise the step is complete: another model round
\* trip follows while the step budget allows, else generateText resolves.
ToolRespond ==
  /\ pc = "tool_wait"
  /\ \E ok \in BOOLEAN :
       IF ~ok
         THEN /\ inFlight' = inFlight - 1
              /\ SessionThrown("Failed to fetch diff")
              /\ UNCHANGED <<stepCount, modelCalls, netCalls>>
         ELSE /\ stepCount' = stepCount + 1
              /\ IF ContinueSteps(stepCount + 1)
                   THEN /\ modelCalls' = modelCalls + 1
                        /\ netCalls' = netCalls + 1
                        /\ inFlight' = inFlight
                        /\ pc' = "model_wait"
                        /\ UNCHANGED <<stdout, stderr, exitCode, idx, sessionsActive>>
                   ELSE /\ inFlight' = inFlight - 1
                        /\ SessionFinished
                        /\ UNCHANGED <<modelCalls, netCalls>>
  /\ UNCHANGED <<mode, env, argv2, compareReq, compareData, commitsToReview,
                 pullNumber, toolExecs, diffFetches, sessionsStarted>>

Next ==
  \/ LoadConfig
  \/ ParseArgs
  \/ ResolveTargets
  \/ CompareRespond
  \/ LoopNext
  \/ StartSession
  \/ ModelRespond
  \/ ToolRespond

Spec == Init /\ [][Next]_vars

\* ================================================================= claims
Terminal == pc \in {"done", "aborted", "exited"}
InSession == pc \in {"model_wait", "tool_wait"}

SessionMsgs == {"model call failed", "Failed to fetch diff"}

\* The commit identifiers of the review banners printed so far, in order
ReviewedShas ==
  LET banners == SelectSeq(stdout, LAMBDA l : l.line = "--- Review for commit")
  IN  [i \in 1..Len(banners) |-> banners[i].sha]

ClosingPrinted ==
  \E i \in 1..Len(stdout) : stdout[i].line = "================================="

RequiredMissing ==
  \/ Falsy(env.GITHUB_OWNER) \/ Falsy(env.GITHUB_REPO) \/ Falsy(env.GITHUB_TOKEN)
  \/ (mode = "release" /\ Falsy(env.OPENAI_API_KEY))

\* ---- C1 (as stated): in commit mode, when a run whose targets were resolved
\* has ended, every target of the list either has its review printed or has a
\* failure logged for it, the printed reviews keeping the resolved order: a
\* failing target does not keep the other targets from being reviewed.
C1_OtherTargetsStillReviewed ==
  (mode = "commit" /\ pc = "done" /\ commitsToReview # <<>>) =>
    \A i \in 1..Len(commitsToReview) :
      \/ \E k \in 1..Len(ReviewedShas) : ReviewedShas[k] = commitsToReview[i]
      \/ \E k \in 1..Len(stderr) : stderr[k].sha = commitsToReview[i]

C3_AtMostTwoRoundTrips ==
  /\ modelCalls <= 2
  /\ stepCount <= 2
  /\ (stepCount = 2 => ~InSession /\ sessionsActive = 0)
  /\ (InSession <=> sessionsActive = 1)

\* A commit session that ended after the model asked for the tool in step 2
C3_Witness ==
  mode = "commit" /\ pc = "loop" /\ modelCalls = 2 /\ toolExecs = 2 /\ stepCount = 2

\* ---- C4: in every mode, when a required configuration value is missing the
\* run makes no network call and starts no session, and once the checks have
\* run it is aborted with a configuration error and a non-zero status.
C4_MissingConfigAborts ==
  RequiredMissing =>
    /\ netCalls = 0
    /\ sessionsStarted = 0
    /\ (pc # "start" => pc = "aborted" /\ exitCode = 1 /\ Len(stderr) = 1
                        /\ stdout = <<>>)

\* commit.ts aborted because only the access credential is missing
C4_Witness ==
  /\ mode = "commit" /\ pc = "aborted"
  /\ ~Falsy(env.GITHUB_OWNER) /\ ~Falsy(env.GITHUB_REPO) /\ Falsy(env.GITHUB_TOKEN)

\* ---- C5: in commit mode, when target resolution fails (compare status not
\* ok, commits missing or empty, or neither range nor fallback SHA), no session
\* is started and no diff is fetched; and a session is only ever started with
\* resolution complete (no compare pending, a non-empty target list).
ResolutionFails ==
  \/ /\ compareData # <<>>
     /\ \/ ~compareData[1].ok
        \/ ~compareData[1].hasCommits
        \/ compareData[1].commits = <<>>
  \/ /\ pc \notin {"start", "resolve"}
     /\ Falsy(env.SEMAPHORE_GIT_COMMIT_RANGE) /\ Falsy(env.SEMAPHORE_GIT_SHA)

C5_NoReviewOnFailedResolution ==
  mode = "commit" =>
    /\ ResolutionFails =>
         /\ sessionsStarted = 0 /\ diffFetches = 0 /\ commitsToReview = <<>>
         /\ pc \in {"done", "aborted"}
         /\ ReviewedShas = <<>>
    /\ sessionsStarted > 0 =>
         /\ pc # "compare_wait" /\ commitsToReview # <<>>
         /\ (compareReq # <<>> => compareData # <<>>)

\* A successful compare response with an empty commits list ended the run
C5_Witness ==
  /\ mode = "commit" /\ pc = "done" /\ compareData # <<>>
  /\ compareData[1].ok /\ compareData[1].hasCommits /\ compareData[1].commits = <<>>

\* ---- C6 (as stated): a missing or invalid required input (PR mode: no
\* argument or one that is not a number; commit mode: no range and no
\* fallback SHA) causes no network activity, and the run ends with a message
\* and a non-zero exit status.
IsNumeric(s) == s # <<>> /\ \A i \in 1..Len(s) : IsDigit(s[i])

InvalidInput ==
  \/ mode = "pr" /\ (argv2 = Undefined \/ ~IsNumeric(argv2))
  \/ mode = "commit" /\ Falsy(env.SEMAPHORE_GIT_COMMIT_RANGE)
                     /\ Falsy(env.SEMAPHORE_GIT_SHA)

C6_InvalidInputExitsNonZero ==
  (InvalidInput /\ ~RequiredMissing) =>
    /\ netCalls = 0
    /\ (Terminal => exitCode # 0 /\ stderr # <<>>)

C8_SplitsIntoTwoNonEmpty ==
  compareReq # <<>> =>
    LET range == env.SEMAPHORE_GIT_COMMIT_RANGE
        i     == IndexOf(range, Separator)
    IN  /\ compareReq[1].base = SubSeq(range, 1, i - 1)
        /\ compareReq[1].head = SubSeq(range, i + 3, Len(range))
        /\ compareReq[1].base # <<>>
        /\ compareReq[1].head # <<>>

\* ---- C9: in commit mode with a range text that does not contain "...", no
\* compare call is made, and a resolved target list has exactly one element:
\* the range text, or the fallback SHA when the range is empty or absent.
C9_SingleCommitResolution ==
  (mode = "commit" /\ ~Includes(env.SEMAPHORE_GIT_COMMIT_RANGE, Separator)) =>
    /\ compareReq = <<>> /\ compareData = <<>>
    /\ commitsToReview # <<>> =>
         commitsToReview =
           << IF Falsy(env.SEMAPHORE_GIT_COMMIT_RANGE)
                THEN env.SEMAPHORE_GIT_SHA ELSE env.SEMAPHORE_GIT_COMMIT_RANGE >>
    /\ (pc \in {"loop", "model_wait", "tool_wait"} \/ stdout # <<>>) =>
         Len(commitsToReview) = 1
    /\ (pc \notin {"start", "resolve", "aborted"}
        /\ ~(Falsy(env.SEMAPHORE_GIT_COMMIT_RANGE) /\ Falsy(env.SEMAPHORE_GIT_SHA))) =>
         Len(commitsToReview) = 1

\* The fallback SHA was resolved while a bare commit text was absent
C9_Witness ==
  /\ mode = "commit" /\ pc = "loop"
  /\ Falsy(env.SEMAPHORE_GIT_COMMIT_RANGE)
  /\ commitsToReview = << <<"c">> >>

\* ---- C10: in commit mode the printed reviews are always a prefix of the
\* resolved list; when the session of target i fails, the run is over with
\* exactly the reviews of the targets before i printed and exactly i sessions
\* started; at most one error is ever logged; and the closing banner is
\* printed only when every target was reviewed.
SessionFailed ==
  \E k \in 1..Len(stderr) : stderr[k].msg \in SessionMsgs

C10_PrintedPrefixStopsAtFailure ==
  mode = "commit" =>
    /\ Len(ReviewedShas) <= Len(commitsToReview)
    /\ ReviewedShas = SubSeq(commitsToReview, 1, Len(ReviewedShas))
    /\ Len(stderr) <= 1
    /\ SessionFailed =>
         /\ pc = "done"
         /\ sessionsStarted = Len(ReviewedShas) + 1
         /\ stderr[1].sha = commitsToReview[Len(ReviewedShas) + 1]
         /\ ~ClosingPrinted
    /\ ClosingPrinted =>
         /\ pc = "done" /\ stderr = <<>>
         /\ ReviewedShas = commitsToReview
         /\ sessionsStarted = Len(commitsToReview)

\* The second of three targets failed: one review printed, two sessions started
C10_Witness ==
  /\ mode = "commit" /\ pc = "done" /\ Len(commitsToReview) = 3
  /\ SessionFailed /\ Len(ReviewedShas) = 1 /\ sessionsStarted = 2
====
